---- MODULE Spec2Model ----
(***************************************************************************)
(* Model of the lz4 frame Encoder (src/src/encoder.rs): the configuration *)
(* builder, the engine context, the chunked write loop, the flush loop    *)
(* and finish.  The native frame engine LZ4F, check_error and             *)
(* BlockSize::get_size live in liblz4.rs / liblz4 itself; they are        *)
(* modelled from the engine contract of the specification.                *)
(*                                                                         *)
(* Bytes of the sink are tokens <<kind, value>>:                           *)
(*   <<"M", 0>>      frame magic                                           *)
(*   <<"F", flags>>  frame descriptor (block size id, mode, checksum)      *)
(*   <<"B", n>>      block header of a block of n data bytes; n = 0 is the *)
(*                   end mark                                              *)
(*   <<"D", b>>      one (compressed) data byte                            *)
(*   <<"C", h>>      content checksum                                      *)
(***************************************************************************)
EXTENDS Integers, Sequences, FiniteSets, TLC

VARIABLES
    builder,    \* EncoderBuilder: the five configuration fields
    phase,      \* "Configuring" | "Live" | "BuildFailed" | "Finished" | "Dropped"
    enc,        \* Encoder<W>: c (handle), w (sink content), limit, buffer
    engine,     \* the native compression context behind enc.c
    ctx,        \* native contexts: how many were created / freed
    last,       \* the last call: op, arg, result, engine calls, sink writes
    ghost,      \* session history: written, engineIn, engineOut, sinkLog, ...
    returned,   \* what finish handed back: <<>> or <<[w, result]>>
    ncalls      \* number of write/flush calls made in this session

vars == <<builder, phase, enc, engine, ctx, last, ghost, returned, ncalls>>

\* ------------------------------------------------------------------ bounds

\* Most input bytes offered to the write calls of one session.
MaxBytes == 4

\* Most write/flush calls in one session.
MaxCalls == 3

\* Most Encoders built from the one builder.
MaxEncoders == 2

\* ------------------------------------------------------------- utilities

Min(a, b) == IF a < b THEN a ELSE b

Prefix(s, n) == SubSeq(s, 1, n)

Suffix(s, n) == SubSeq(s, n + 1, Len(s))

\* ------------------------------------------- liblz4: types and engine

BlockSizes == {"Default", "Max256KB"}

BlockModes == {"Linked", "Independent"}

ContentChecksums == {"NoChecksum", "ChecksumEnabled"}

Levels == {0, 1}

\* BlockSize::get_size, in scaled units (Default is the 64KB class).
get_size(block_size) == IF block_size = "Max256KB" THEN 3 ELSE 2

\* check_error: a negative engine status is an error, anything else a length.
check_error(code) == IF code < 0 THEN [err |-> TRUE, len |-> 0]
                     ELSE [err |-> FALSE, len |-> code]

\* Running content hash (order sensitive).
HashStep(h, b) == (3 * h + b + 1) % 7

RECURSIVE HashOf(_, _)
HashOf(h, data) == IF data = <<>> THEN h
                   ELSE HashOf(HashStep(h, Head(data)), Tail(data))

\* One block: its header and its data bytes.
Block(data) == <<<<"B", Len(data)>>>> \o [i \in 1..Len(data) |-> <<"D", data[i]>>]

\* The full blocks of bs bytes that data holds.
RECURSIVE FullBlocks(_, _)
FullBlocks(data, bs) ==
    IF bs < 1 \/ Len(data) < bs THEN <<>>
    ELSE Block(Prefix(data, bs)) \o FullBlocks(Suffix(data, bs), bs)

Flags(prefs) ==
    (IF prefs.frame_info.block_size_id = "Max256KB" THEN 4 ELSE 0)
    + (IF prefs.frame_info.block_mode = "Independent" THEN 2 ELSE 0)
    + (IF prefs.frame_info.content_checksum_flag = "ChecksumEnabled" THEN 1 ELSE 0)

FrameHeader(prefs) == << <<"M", 0>>, <<"F", Flags(prefs)>> >>

FrameEnd(prefs, h) ==
    << <<"B", 0>> >> \o
    (IF prefs.frame_info.content_checksum_flag = "ChecksumEnabled"
     THEN << <<"C", h>> >> ELSE <<>>)

NullEngine == [st |-> "null", prefs |-> <<>>, pending |-> <<>>, hash |-> 0]

\* An engine result: status code (negative: error) and the bytes produced.
EngineError(e) == [code |-> -1, out |-> <<>>, eng |-> e]

EngineOk(e, out) == [code |-> Len(out), out |-> out, eng |-> e]

\* LZ4F_compressBound: worst-case output of one update of srcSize bytes,
\* the data still buffered and the frame end included.
LZ4F_compressBound(srcSize, prefs, fails) ==
    LET bs == get_size(prefs.frame_info.block_size_id)
        buffered == IF prefs.auto_flush = 1 THEN 0 ELSE bs - 1
    IN  IF fails THEN -1 ELSE 2 + srcSize + buffered + 2

LZ4F_createCompressionContext(e, fails) ==
    IF fails THEN EngineError(e)
    ELSE EngineOk([NullEngine EXCEPT !.st = "created"], <<>>)

LZ4F_compressBegin(e, cap, prefs, fails) ==
    IF fails \/ e.st # "created" \/ cap < Len(FrameHeader(prefs)) THEN EngineError(e)
    ELSE EngineOk([e EXCEPT !.st = "begun", !.prefs = <<prefs>>], FrameHeader(prefs))

\* LZ4F_compressUpdate: src joins the data the engine holds; every full block
\* is emitted, and with auto-flush the remainder too.
LZ4F_compressUpdate(e, cap, src, fails) ==
    IF fails \/ e.st # "begun" THEN EngineError(e)
    ELSE LET prefs == e.prefs[1]
             bs == get_size(prefs.frame_info.block_size_id)
             data == e.pending \o src
             rest == Suffix(data, Len(data) - (Len(data) % bs))
             out == FullBlocks(data, bs)
                    \o (IF prefs.auto_flush = 1 /\ rest # <<>> THEN Block(rest)
                        ELSE <<>>)
         IN  IF Len(out) > cap THEN EngineError(e)
             ELSE EngineOk([e EXCEPT !.pending = IF prefs.auto_flush = 1 THEN <<>>
                                                 ELSE rest,
                                     !.hash = HashOf(e.hash, src)], out)

\* LZ4F_flush: emits pending data as a block; k is how much of it the engine
\* lets go in this call (at least one byte when anything is pending).
LZ4F_flush(e, cap, k, fails) ==
    IF fails \/ e.st # "begun" THEN EngineError(e)
    ELSE IF e.pending = <<>> THEN EngineOk(e, <<>>)
    ELSE LET n == Min(IF k < 1 THEN 1 ELSE k, Len(e.pending))
             out == Block(Prefix(e.pending, n))
         IN  IF Len(out) > cap THEN EngineError(e)
             ELSE EngineOk([e EXCEPT !.pending = Suffix(e.pending, n)], out)

\* LZ4F_compressEnd: flushes what is pending, then the end mark and checksum.
LZ4F_compressEnd(e, cap, fails) ==
    IF fails \/ e.st # "begun" THEN EngineError(e)
    ELSE LET prefs == e.prefs[1]
             out == (IF e.pending = <<>> THEN <<>> ELSE Block(e.pending))
                    \o FrameEnd(prefs, e.hash)
         IN  IF Len(out) > cap THEN EngineError(e)
             ELSE EngineOk([e EXCEPT !.st = "ended", !.pending = <<>>], out)

LZ4F_freeCompressionContext(e) == [e EXCEPT !.st = "freed"]

\* ------------------------------------------------- the external decoder

\* Parses the blocks of a frame from position i on; content is what was
\* decoded so far.  Returns <<"ok", content>> or <<"invalid", <<>>>>.
RECURSIVE DecodeBlocks(_, _, _, _)
DecodeBlocks(stream, i, content, checksum) ==
    IF i > Len(stream) \/ stream[i][1] # "B" THEN <<"invalid", <<>>>>
    ELSE LET n == stream[i][2]
         IN  IF n = 0
             THEN IF checksum
                  THEN IF Len(stream) = i + 1
                          /\ stream[i + 1] = <<"C", HashOf(0, content)>>
                       THEN <<"ok", content>> ELSE <<"invalid", <<>>>>
                  ELSE IF Len(stream) = i THEN <<"ok", content>>
                       ELSE <<"invalid", <<>>>>
             ELSE IF i + n > Len(stream)
                     \/ \E j \in (i + 1)..(i + n) : stream[j][1] # "D"
                  THEN <<"invalid", <<>>>>
                  ELSE DecodeBlocks(stream, i + n + 1,
                                    content \o [j \in 1..n |-> stream[i + j][2]],
                                    checksum)

Decode(stream) ==
    IF Len(stream) < 2 \/ stream[1] # <<"M", 0>> \/ stream[2][1] # "F"
    THEN <<"invalid", <<>>>>
    ELSE DecodeBlocks(stream, 3, <<>>, stream[2][2] % 2 = 1)

\* ------------------------------------------------------ EncoderBuilder

EncoderBuilder_new ==
    [block_size |-> "Default", block_mode |-> "Linked",
     checksum |-> "ChecksumEnabled", level |-> 0, auto_flush |-> FALSE]

\* Bug variant: the auto-flush setting never reaches the engine.
Preferences_no_auto_flush(b) ==
    [frame_info |-> [block_size_id |-> b.block_size,
                     block_mode |-> b.block_mode,
                     content_checksum_flag |-> b.checksum],
     compression_level |-> b.level,
     auto_flush |-> 0]

\* The setters: each assigns its own field and hands the builder back.
EncoderBuilder_block_size(b, v) == [b EXCEPT !.block_size = v]

EncoderBuilder_block_mode(b, v) == [b EXCEPT !.block_mode = v]

EncoderBuilder_checksum(b, v) == [b EXCEPT !.checksum = v]

\* Bug variant: the level setter leaves the builder as it was.
EncoderBuilder_level_ignored(b, v) == b

EncoderBuilder_level(b, v) == [b EXCEPT !.level = v]

EncoderBuilder_auto_flush(b, v) == [b EXCEPT !.auto_flush = v]

\* The LZ4FPreferences that build assembles from the builder.
Preferences(b) ==
    [frame_info |-> [block_size_id |-> b.block_size,
                     block_mode |-> b.block_mode,
                     content_checksum_flag |-> b.checksum],
     compression_level |-> b.level,
     auto_flush |-> IF b.auto_flush THEN 1 ELSE 0]

\* ------------------------------------------------------------- Encoder

Ok(v) == [ok |-> TRUE, val |-> v, err |-> "none"]

Err(kind) == [ok |-> FALSE, val |-> 0, err |-> kind]

NoBuffer == [cap |-> 0, mem |-> <<>>, len |-> 0]

NoEncoder == [c |-> 0, w |-> <<>>, limit |-> 0, buffer |-> NoBuffer]

\* Vec::with_capacity: no valid bytes yet.
with_capacity(cap) == [cap |-> cap, mem |-> <<>>, len |-> 0]

\* The engine writes its output at the start of the buffer's memory; what
\* lay behind it stays.
StoreOutput(buffer, out) ==
    [buffer EXCEPT !.mem = out \o Suffix(@, Min(Len(out), Len(@)))]

\* Bug variant: the valid length is never set.
set_len_skipped(buffer, len) == buffer

set_len(buffer, len) == [buffer EXCEPT !.len = len]

\* Bug variant: the whole memory written so far is taken, not the valid part.
Valid_all(buffer) == buffer.mem

\* The bytes &self.buffer denotes.
Valid(buffer) == Prefix(buffer.mem, Min(buffer.len, Len(buffer.mem)))

\* Bug variant: the valid length is passed as the output limit.
Capacity_len(buffer) == buffer.len

\* self.buffer.capacity(), the output limit every engine call is given.
Capacity(buffer) == buffer.cap

\* The log entry of one engine call: its input, the output limit it was
\* given, its status and output, and whether it was made to fail.
Call(op, src, cap, r, injected) ==
    [op |-> op, src |-> src, cap |-> cap, code |-> r.code, out |-> r.out,
     injected |-> injected]

\* One engine call made with the encoder's buffer: the engine state and the
\* buffer memory change, and the call is logged.  order keeps the sequence
\* of engine calls ("e"), sink writes ("w") and sink flushes ("f").
EngineCall(s, op, src, r, injected) ==
    [s EXCEPT !.engine = r.eng,
              !.enc.buffer = StoreOutput(@, r.out),
              !.calls = Append(@, Call(op, src, Capacity(s.enc.buffer), r, injected)),
              !.order = Append(@, "e")]

\* self.w.write_all(&self.buffer): all or nothing; an empty slice never
\* reaches the sink.
write_all(s, fails) ==
    LET data == Valid(s.enc.buffer)
    IN  IF data = <<>> THEN [s EXCEPT !.result = Ok(0)]
        ELSE IF fails
        THEN [s EXCEPT !.writes = Append(@, [data |-> data, ok |-> FALSE]),
                       !.order = Append(@, "w"),
                       !.result = Err("sink")]
        ELSE [s EXCEPT !.enc.w = @ \o data,
                       !.writes = Append(@, [data |-> data, ok |-> TRUE]),
                       !.order = Append(@, "w"),
                       !.result = Ok(0)]

Fails(fail, kind, iter) == fail.kind = kind /\ fail.at = iter

NoFail == [kind |-> "none", at |-> 0]

\* Bug variant: the header is made in the buffer but never sent to the sink.
write_header_unsent(s, preferences, fail) ==
    LET r == LZ4F_compressBegin(s.engine, Capacity(s.enc.buffer), preferences,
                                Fails(fail, "engine", 1))
        chk == check_error(r.code)
        s1 == EngineCall(s, "begin", <<>>, r, Fails(fail, "engine", 1))
    IN  IF chk.err THEN [s1 EXCEPT !.result = Err("engine")]
        ELSE [s1 EXCEPT !.enc.buffer = set_len(@, chk.len), !.result = Ok(0)]

write_header(s, preferences, fail) ==
    LET r == LZ4F_compressBegin(s.engine, Capacity(s.enc.buffer), preferences,
                                Fails(fail, "engine", 1))
        chk == check_error(r.code)
        s1 == EngineCall(s, "begin", <<>>, r, Fails(fail, "engine", 1))
    IN  IF chk.err THEN [s1 EXCEPT !.result = Err("engine")]
        ELSE write_all([s1 EXCEPT !.enc.buffer = set_len(@, chk.len)],
                       Fails(fail, "sink", 1))

write_end(s, fail) ==
    LET r == LZ4F_compressEnd(s.engine, Capacity(s.enc.buffer),
                              Fails(fail, "engine", 1))
        chk == check_error(r.code)
        s1 == EngineCall(s, "end", <<>>, r, Fails(fail, "engine", 1))
    IN  IF chk.err THEN [s1 EXCEPT !.result = Err("engine")]
        ELSE write_all([s1 EXCEPT !.enc.buffer = set_len(@, chk.len)],
                       Fails(fail, "sink", 1))

\* Bug variant: the whole remaining input goes to the engine at once.
SliceSize_whole(remaining, limit) == remaining

\* let size = cmp::min(buffer.len() - offset, self.limit)
SliceSize(remaining, limit) == Min(remaining, limit)

\* Bug variant: the offset skips one byte too many.
NextOffset_skip(offset, size, len) == offset + size + 1

\* offset += size
NextOffset(offset, size, len) == offset + size

\* Bug variant: every slice is taken from the start of the input.
Slice_from_start(buffer, offset, size) == SubSeq(buffer, 1, size)

\* buffer[offset..] taken for size bytes
Slice(buffer, offset, size) == SubSeq(buffer, offset + 1, offset + size)

\* Bug variant: the error is dropped and the loop goes on.
AbortWrite_never(result) == FALSE

\* The ? on an engine or sink result inside write: an error ends the call.
AbortWrite(result) == ~result.ok

RECURSIVE WriteLoop(_, _, _, _, _)
WriteLoop(s, buffer, offset, iter, fail) ==
    IF ~(offset < Len(buffer)) THEN [s EXCEPT !.result = Ok(Len(buffer))]
    ELSE LET size == SliceSize(Len(buffer) - offset, s.enc.limit)
             src == Slice(buffer, offset, size)
             r == LZ4F_compressUpdate(s.engine, Capacity(s.enc.buffer), src,
                                      Fails(fail, "engine", iter))
             chk == check_error(r.code)
             s1 == EngineCall(s, "update", src, r, Fails(fail, "engine", iter))
         IN  IF chk.err /\ AbortWrite(Err("engine"))
             THEN [s1 EXCEPT !.result = Err("engine")]
             ELSE LET s2 == write_all([s1 EXCEPT !.enc.buffer = set_len(@, chk.len)],
                                      Fails(fail, "sink", iter))
                  IN  IF AbortWrite(s2.result) THEN s2
                      ELSE WriteLoop(s2, buffer, NextOffset(offset, size, chk.len),
                                     iter + 1, fail)

write(s, buffer, fail) == WriteLoop(s, buffer, 0, 1, fail)

\* Bug variant: the result of the sink's flush is thrown away.
sink_flush_ignored(s, fails) ==
    [s EXCEPT !.sflush = Append(@, ~fails),
              !.order = Append(@, "f"),
              !.result = Ok(0)]

\* self.w.flush()
sink_flush(s, fails) ==
    [s EXCEPT !.sflush = Append(@, ~fails),
              !.order = Append(@, "f"),
              !.result = IF fails THEN Err("sink") ELSE Ok(0)]

\* Bug variant: the buffer is written before the zero test, with the valid
\* length of the operation before when the engine reported zero.
RECURSIVE FlushLoop_stale(_, _, _, _)
FlushLoop_stale(s, k, iter, fail) ==
    LET r == LZ4F_flush(s.engine, Capacity(s.enc.buffer), k, Fails(fail, "engine", iter))
        chk == check_error(r.code)
        s1 == EngineCall(s, "flush", <<>>, r, Fails(fail, "engine", iter))
    IN  IF chk.err THEN [s1 EXCEPT !.result = Err("engine")]
        ELSE LET s2 == write_all(IF chk.len = 0 THEN s1
                                 ELSE [s1 EXCEPT !.enc.buffer = set_len(@, chk.len)],
                                 Fails(fail, "sink", iter))
             IN  IF ~s2.result.ok THEN s2
                 ELSE IF chk.len = 0 THEN sink_flush(s2, fail.kind = "sinkflush")
                 ELSE FlushLoop_stale(s2, k, iter + 1, fail)

RECURSIVE FlushLoop(_, _, _, _)
FlushLoop(s, k, iter, fail) ==
    LET r == LZ4F_flush(s.engine, Capacity(s.enc.buffer), k, Fails(fail, "engine", iter))
        chk == check_error(r.code)
        s1 == EngineCall(s, "flush", <<>>, r, Fails(fail, "engine", iter))
    IN  IF chk.err THEN [s1 EXCEPT !.result = Err("engine")]
        ELSE IF chk.len = 0 THEN sink_flush(s1, fail.kind = "sinkflush")
        ELSE LET s2 == write_all([s1 EXCEPT !.enc.buffer = set_len(@, chk.len)],
                                 Fails(fail, "sink", iter))
             IN  IF ~s2.result.ok THEN s2
                 ELSE FlushLoop(s2, k, iter + 1, fail)

\* Bug variant: one engine flush only, no loop.
flush_once(s, k, fail) ==
    LET r == LZ4F_flush(s.engine, Capacity(s.enc.buffer), k, Fails(fail, "engine", 1))
        chk == check_error(r.code)
        s1 == EngineCall(s, "flush", <<>>, r, Fails(fail, "engine", 1))
    IN  IF chk.err THEN [s1 EXCEPT !.result = Err("engine")]
        ELSE IF chk.len = 0 THEN sink_flush(s1, fail.kind = "sinkflush")
        ELSE LET s2 == write_all([s1 EXCEPT !.enc.buffer = set_len(@, chk.len)],
                                 Fails(fail, "sink", 1))
             IN  IF ~s2.result.ok THEN s2
                 ELSE sink_flush(s2, fail.kind = "sinkflush")

\* Bug variant: a flush that drained the engine also ends the frame.
flush_ending(s, k, fail) ==
    LET s1 == FlushLoop(s, k, 1, fail)
    IN  IF s1.result.ok THEN write_end(s1, NoFail) ELSE s1

flush(s, k, fail) == FlushLoop(s, k, 1, fail)

\* Bug variant: the sink is handed back only when write_end succeeded.
finish_sink_on_success(s, fail) ==
    LET s1 == write_end(s, fail)
    IN  [s |-> s1,
         pair |-> IF s1.result.ok THEN << [w |-> s1.enc.w, result |-> s1.result] >>
                  ELSE <<>>]

\* finish: write_end, then the pair (self.w, result).
finish(s, fail) ==
    LET s1 == write_end(s, fail)
    IN  [s |-> s1, pair |-> << [w |-> s1.enc.w, result |-> s1.result] >>]

\* Bug variant: one context made once and handed to every Encoder.
NewContext_cached(created) == 1

\* let mut context = ..; LZ4F_createCompressionContext(&mut context, ..):
\* the handle of a context made by this very call, here its serial number.
NewContext(created) == created + 1

\* EncoderContext::new
EncoderContext_new(s, fails) ==
    LET r == LZ4F_createCompressionContext(s.engine, fails)
        s1 == [s EXCEPT !.calls = Append(@, Call("create", <<>>, 0, r, fails))]
    IN  IF check_error(r.code).err THEN [s1 EXCEPT !.result = Err("engine")]
        ELSE [s1 EXCEPT !.engine = r.eng,
                        !.enc.c = NewContext(s.ctx.created),
                        !.ctx.created = @ + 1,
                        !.result = Ok(0)]

\* Bug variant: no Drop for EncoderContext, the native context leaks.
EncoderContext_leak(s) == s

\* Drop for EncoderContext
EncoderContext_drop(s) ==
    [s EXCEPT !.engine = LZ4F_freeCompressionContext(@),
              !.ctx.freed = @ + 1]

\* Bug variant: dropping the Encoder ends the frame as finish does.
drop_encoder_finishing(s) == EncoderContext_drop(write_end(s, NoFail))

\* Encoder has no Drop of its own: dropping it drops its fields, and of
\* these only the EncoderContext does anything.
drop_encoder(s) == EncoderContext_drop(s)

\* Variant: the bound is computed and the buffer allocated before the
\* context is created.
build_bound_first(s, b, fail) ==
    LET block_size == get_size(b.block_size)
        preferences == Preferences(b)
        code == LZ4F_compressBound(block_size, preferences, fail.kind = "bound")
        bound == check_error(code)
        s1 == [s EXCEPT !.calls = Append(@, Call("bound", <<>>, 0,
                                                [code |-> code, out |-> <<>>],
                                                fail.kind = "bound"))]
        s2 == EncoderContext_new(s1, fail.kind = "create")
        s3 == [s2 EXCEPT !.enc.limit = block_size,
                         !.enc.buffer = with_capacity(bound.len)]
        s4 == write_header(s3, preferences, fail)
    IN  IF bound.err THEN [s1 EXCEPT !.result = Err("engine")]
        ELSE IF ~s2.result.ok THEN s2
        ELSE IF ~s4.result.ok THEN EncoderContext_drop(s4)
        ELSE s4

\* EncoderBuilder::build.  The fields of the Encoder literal are evaluated
\* in the order written: w, c, limit, buffer; an early return drops what
\* was already made.
build(s, b, fail) ==
    LET block_size == get_size(b.block_size)
        preferences == Preferences(b)
        s1 == EncoderContext_new(s, fail.kind = "create")
        code == LZ4F_compressBound(block_size, preferences, fail.kind = "bound")
        bound == check_error(code)
        s2 == [s1 EXCEPT !.calls = Append(@, Call("bound", <<>>, 0,
                                                 [code |-> code, out |-> <<>>],
                                                 fail.kind = "bound"))]
        s3 == [s2 EXCEPT !.enc.limit = block_size,
                         !.enc.buffer = with_capacity(bound.len)]
        s4 == write_header(s3, preferences, fail)
    IN  IF ~s1.result.ok THEN s1
        ELSE IF bound.err
        THEN [EncoderContext_drop(s2) EXCEPT !.result = Err("engine")]
        ELSE IF ~s4.result.ok THEN EncoderContext_drop(s4)
        ELSE s4

\* ------------------------------------------------------------ history

RECURSIVE Sources(_)
Sources(calls) ==
    IF calls = <<>> THEN <<>>
    ELSE (IF Head(calls).code >= 0 THEN Head(calls).src ELSE <<>>)
         \o Sources(Tail(calls))

RECURSIVE Outputs(_)
Outputs(calls) ==
    IF calls = <<>> THEN <<>>
    ELSE (IF Head(calls).code >= 0 THEN Head(calls).out ELSE <<>>)
         \o Outputs(Tail(calls))

RECURSIVE Accepted(_)
Accepted(writes) ==
    IF writes = <<>> THEN <<>>
    ELSE (IF Head(writes).ok THEN Head(writes).data ELSE <<>>)
         \o Accepted(Tail(writes))

\* The value each setter was last called with: <<>> when it never was.
NoSet == [block_size |-> <<>>, block_mode |-> <<>>, checksum |-> <<>>,
          level |-> <<>>, auto_flush |-> <<>>]

NoLast == [op |-> "none", arg |-> <<>>, fault |-> NoFail, result |-> Ok(0),
           calls |-> <<>>, writes |-> <<>>, sflush |-> <<>>, order |-> <<>>,
           before |-> <<>>, pending |-> 0, afterFlush |-> FALSE, set |-> NoSet]

NoGhost == [written |-> <<>>, nwrites |-> 0, offered |-> 0, engineIn |-> <<>>,
            engineOut |-> <<>>, sinkLog |-> <<>>, errored |-> FALSE,
            faulted |-> FALSE]

\* The world a handler starts in.
Start == [enc |-> enc, engine |-> engine, ctx |-> ctx, calls |-> <<>>,
          writes |-> <<>>, sflush |-> <<>>, order |-> <<>>, result |-> Ok(0)]

\* What the call just made did: its input and injected fault, its result,
\* its engine calls and sink writes; the sink content and the engine's
\* pending byte count it started from; and whether the call before it was
\* a successful flush.  A fault that was never reached is not recorded.
Record(op, arg, fail, s) ==
    [op |-> op, arg |-> arg,
     fault |-> IF s.result.ok THEN NoFail ELSE fail, result |-> s.result,
     calls |-> s.calls, writes |-> s.writes, sflush |-> s.sflush,
     order |-> s.order,
     before |-> ghost.sinkLog, pending |-> Len(engine.pending),
     afterFlush |-> last.op = "flush" /\ last.result.ok, set |-> NoSet]

\* Whether an injected failure took effect in the call: an engine call made
\* to fail, or the sink rejecting a write or a flush.
Faulted(s) ==
    \/ \E i \in 1..Len(s.calls) : s.calls[i].injected
    \/ \E i \in 1..Len(s.writes) : ~s.writes[i].ok
    \/ \E i \in 1..Len(s.sflush) : ~s.sflush[i]

History(op, arg, s) ==
    [written |-> ghost.written
                 \o (IF op = "write" /\ s.result.ok THEN arg ELSE <<>>),
     nwrites |-> ghost.nwrites
                 + (IF op = "write" /\ s.result.ok /\ arg # <<>> THEN 1 ELSE 0),
     offered |-> ghost.offered + Len(arg),
     engineIn |-> ghost.engineIn \o Sources(s.calls),
     engineOut |-> ghost.engineOut \o Outputs(s.calls),
     sinkLog |-> ghost.sinkLog \o Accepted(s.writes),
     errored |-> ghost.errored \/ ~s.result.ok,
     faulted |-> ghost.faulted \/ Faulted(s)]

\* ------------------------------------------------------------- actions

Init ==
    /\ builder = EncoderBuilder_new
    /\ phase = "Configuring"
    /\ enc = NoEncoder
    /\ engine = NullEngine
    /\ ctx = [created |-> 0, freed |-> 0]
    /\ last = NoLast
    /\ ghost = NoGhost
    /\ returned = <<>>
    /\ ncalls = 0

Session == <<phase, enc, engine, ctx, ghost, returned, ncalls>>

block_size ==
    /\ phase = "Configuring"
    /\ \E v \in BlockSizes :
         /\ builder' = EncoderBuilder_block_size(builder, v)
         /\ last' = [last EXCEPT !.set.block_size = <<v>>]
    /\ UNCHANGED Session

block_mode ==
    /\ phase = "Configuring"
    /\ \E v \in BlockModes :
         /\ builder' = EncoderBuilder_block_mode(builder, v)
         /\ last' = [last EXCEPT !.set.block_mode = <<v>>]
    /\ UNCHANGED Session

checksum ==
    /\ phase = "Configuring"
    /\ \E v \in ContentChecksums :
         /\ builder' = EncoderBuilder_checksum(builder, v)
         /\ last' = [last EXCEPT !.set.checksum = <<v>>]
    /\ UNCHANGED Session

level ==
    /\ phase = "Configuring"
    /\ \E v \in Levels :
         /\ builder' = EncoderBuilder_level(builder, v)
         /\ last' = [last EXCEPT !.set.level = <<v>>]
    /\ UNCHANGED Session

auto_flush ==
    /\ phase = "Configuring"
    /\ \E v \in BOOLEAN :
         /\ builder' = EncoderBuilder_auto_flush(builder, v)
         /\ last' = [last EXCEPT !.set.auto_flush = <<v>>]
    /\ UNCHANGED Session

BuildFails ==
    {NoFail} \cup {[kind |-> k, at |-> 1] : k \in {"create", "bound", "engine", "sink"}}

Build ==
    /\ phase = "Configuring"
    /\ \E fail \in BuildFails :
         LET s == build(Start, builder, fail)
         IN  /\ phase' = IF s.result.ok THEN "Live" ELSE "BuildFailed"
             /\ enc' = IF s.result.ok THEN s.enc ELSE NoEncoder
             /\ engine' = s.engine
             /\ ctx' = s.ctx
             /\ last' = Record("build", <<>>, fail, s)
             /\ ghost' = History("build", <<>>, s)
    /\ UNCHANGED <<builder, returned, ncalls>>

\* The caller's next n bytes; every byte of a session is distinct.
Input(n) == [i \in 1..n |-> (ghost.offered + i) % 256]

Iterations(n) == IF enc.limit < 1 THEN 0 ELSE (n + enc.limit - 1) \div enc.limit

\* At most one write or flush of a session is made to fail.
CanFail == ~ghost.faulted

WriteFails(n) ==
    {NoFail} \cup {[kind |-> k, at |-> i] :
                     k \in {"engine", "sink"},
                     i \in 1..(IF CanFail THEN Iterations(n) ELSE 0)}

Write ==
    /\ phase = "Live"
    /\ ncalls < MaxCalls
    /\ \E n \in 0..(MaxBytes - ghost.offered) : \E fail \in WriteFails(n) :
         LET s == write(Start, Input(n), fail)
         IN  /\ enc' = s.enc
             /\ engine' = s.engine
             /\ last' = Record("write", Input(n), fail, s)
             /\ ghost' = History("write", Input(n), s)
    /\ ncalls' = ncalls + 1
    /\ UNCHANGED <<builder, phase, ctx, returned>>

FlushFails ==
    {NoFail}
    \cup {[kind |-> k, at |-> i] :
            k \in {"engine", "sink", "sinkflush"},
            i \in 1..(IF CanFail THEN Len(engine.pending) + 1 ELSE 0)}

Flush ==
    /\ phase = "Live"
    /\ ncalls < MaxCalls
    /\ \E k \in 1..enc.limit : \E fail \in FlushFails :
         LET s == flush(Start, k, fail)
         IN  /\ enc' = s.enc
             /\ engine' = s.engine
             /\ last' = Record("flush", <<>>, fail, s)
             /\ ghost' = History("flush", <<>>, s)
    /\ ncalls' = ncalls + 1
    /\ UNCHANGED <<builder, phase, ctx, returned>>

FinishFails == {NoFail} \cup {[kind |-> k, at |-> 1] : k \in {"engine", "sink"}}

\* finish consumes the Encoder: w moves into the pair, c and buffer are
\* dropped when finish returns.
Finish ==
    /\ phase = "Live"
    /\ \E fail \in FinishFails :
         LET f == finish(Start, fail)
             s == EncoderContext_drop(f.s)
         IN  /\ returned' = f.pair
             /\ engine' = s.engine
             /\ ctx' = s.ctx
             /\ last' = Record("finish", <<>>, fail, s)
             /\ ghost' = History("finish", <<>>, s)
    /\ phase' = "Finished"
    /\ enc' = NoEncoder
    /\ UNCHANGED <<builder, ncalls>>

\* The Encoder goes out of scope without finish: its fields are dropped.
DropEncoder ==
    /\ phase = "Live"
    /\ LET s == drop_encoder(Start)
       IN  /\ engine' = s.engine
           /\ ctx' = s.ctx
           /\ last' = Record("drop", <<>>, NoFail, s)
           /\ ghost' = History("drop", <<>>, s)
    /\ phase' = "Dropped"
    /\ enc' = NoEncoder
    /\ UNCHANGED <<builder, returned, ncalls>>

Next ==
    \/ block_size
    \/ block_mode
    \/ checksum
    \/ level
    \/ auto_flush
    \/ Build
    \/ Write
    \/ Flush
    \/ Finish
    \/ DropEncoder

Spec == Init /\ [][Next]_vars

\* ------------------------------- several Encoders from the one builder

\* Here enc is the sequence of the Encoders built so far, each with its
\* state ("Live", "BuildFailed", "Finished", "Dropped"); engine maps every
\* native handle to the context behind it; ghost maps every handle to the
\* Encoders that released it; returned holds what each finish handed back.
Handles == 1..MaxEncoders

InitShared ==
    /\ builder = EncoderBuilder_new
    /\ phase = "Configuring"
    /\ enc = <<>>
    /\ engine = [h \in Handles |-> NullEngine]
    /\ ctx = [created |-> 0, freed |-> 0]
    /\ last = NoLast
    /\ ghost = [h \in Handles |-> <<>>]
    /\ returned = <<>>
    /\ ncalls = 0

\* The world a call on the i-th Encoder starts in.
WorldOf(i) ==
    [enc |-> enc[i].e, engine |-> engine[enc[i].e.c], ctx |-> ctx,
     calls |-> <<>>, writes |-> <<>>, sflush |-> <<>>, order |-> <<>>,
     result |-> Ok(0)]

\* Who released handle h, after a call by Encoder i that ended in world s.
Released(h, i, s) ==
    IF s.ctx.freed > ctx.freed /\ h \in Handles
    THEN [ghost EXCEPT ![h] = Append(@, i)] ELSE ghost

BuildShared ==
    /\ ncalls < MaxEncoders
    /\ \E fail \in BuildFails :
         LET s == build([Start EXCEPT !.enc = NoEncoder, !.engine = NullEngine],
                        builder, fail)
             h == s.enc.c
         IN  /\ enc' = Append(enc, [e |-> s.enc,
                                    state |-> IF s.result.ok THEN "Live"
                                              ELSE "BuildFailed"])
             /\ engine' = IF s.ctx.created > ctx.created /\ h \in Handles
                          THEN [engine EXCEPT ![h] = s.engine] ELSE engine
             /\ ctx' = s.ctx
             /\ ghost' = Released(h, ncalls + 1, s)
             /\ last' = [last EXCEPT !.op = "build"]
    /\ returned' = Append(returned, <<>>)
    /\ ncalls' = ncalls + 1
    /\ UNCHANGED <<builder, phase>>

\* The i-th Encoder writes one byte, stamped with i.
WriteShared(i) ==
    /\ i \in 1..Len(enc) /\ enc[i].state = "Live"
    /\ enc[i].e.w = FrameHeader(engine[enc[i].e.c].prefs[1])
    /\ engine[enc[i].e.c].pending = <<>>
    /\ LET s == write(WorldOf(i), <<i>>, NoFail)
       IN  /\ enc' = [enc EXCEPT ![i].e = s.enc]
           /\ engine' = [engine EXCEPT ![enc[i].e.c] = s.engine]
           /\ last' = [last EXCEPT !.op = "write"]
    /\ UNCHANGED <<builder, phase, ctx, ghost, returned, ncalls>>

FinishShared(i) ==
    /\ i \in 1..Len(enc) /\ enc[i].state = "Live"
    /\ \E fail \in FinishFails :
         LET f == finish(WorldOf(i), fail)
             s == EncoderContext_drop(f.s)
         IN  /\ enc' = [enc EXCEPT ![i] = [e |-> s.enc, state |-> "Finished"]]
             /\ engine' = [engine EXCEPT ![enc[i].e.c] = s.engine]
             /\ ctx' = s.ctx
             /\ ghost' = Released(enc[i].e.c, i, s)
             /\ returned' = [returned EXCEPT ![i] = f.pair]
             /\ last' = [last EXCEPT !.op = "finish"]
    /\ UNCHANGED <<builder, phase, ncalls>>

DropShared(i) ==
    /\ i \in 1..Len(enc) /\ enc[i].state = "Live"
    /\ LET s == drop_encoder(WorldOf(i))
       IN  /\ enc' = [enc EXCEPT ![i] = [e |-> s.enc, state |-> "Dropped"]]
           /\ engine' = [engine EXCEPT ![enc[i].e.c] = s.engine]
           /\ ctx' = s.ctx
           /\ ghost' = Released(enc[i].e.c, i, s)
           /\ last' = [last EXCEPT !.op = "drop"]
    /\ UNCHANGED <<builder, phase, returned, ncalls>>

NextShared ==
    \/ level
    \/ BuildShared
    \/ \E i \in 1..MaxEncoders : WriteShared(i)
    \/ \E i \in 1..MaxEncoders : FinishShared(i)
    \/ \E i \in 1..MaxEncoders : DropShared(i)

SpecShared == InitShared /\ [][NextShared]_vars

\* ----------------------------------------------------------- properties

Limit == get_size(builder.block_size)

Prefs == Preferences(builder)

Updates(calls) == {i \in 1..Len(calls) : calls[i].op = "update"}

\* C1: every engine update call receives at most the configured block
\* size's byte count of input, whatever the length of the write's input and
\* whatever calls came before.
C1_UpdateWithinBlockSize ==
    \A i \in Updates(last.calls) : Len(last.calls[i].src) <= Limit

\* C1 witness: a write, not the first call of its session, whose input is
\* longer than the block size and was split over several update calls.
C1_Witness ==
    /\ last.op = "write" /\ ncalls >= 2
    /\ Len(last.arg) > Limit
    /\ Cardinality(Updates(last.calls)) >= 2

\* C2: when build and every call so far succeeded, the sink holds exactly
\* the engine's outputs in call order, the header first; after a successful
\* finish it ends with the footer of the engine end operation, and a build
\* followed at once by finish leaves header and footer alone.
C2_SinkIsEngineOutputInOrder ==
    /\ (phase = "Live" /\ ~ghost.errored) =>
          /\ enc.w = ghost.engineOut
          /\ Prefix(enc.w, Len(FrameHeader(Prefs))) = FrameHeader(Prefs)
    /\ (phase = "Finished" /\ ~ghost.errored) =>
          LET w == returned[1].w
              footer == last.calls[Len(last.calls)].out
          IN  /\ w = ghost.engineOut
              /\ Prefix(w, Len(FrameHeader(Prefs))) = FrameHeader(Prefs)
              /\ last.calls[Len(last.calls)].op = "end"
              /\ w = last.before \o footer
              /\ ncalls = 0 => w = FrameHeader(Prefs) \o FrameEnd(Prefs, 0)

\* C2 witness: a successful session of several calls that put at least two
\* blocks between header and footer.
C2_Witness ==
    /\ phase = "Finished" /\ ~ghost.errored /\ ncalls >= 2
    /\ Len(returned[1].w) > Len(FrameHeader(Prefs)) + Len(ghost.written) + 3

\* C3: the native context is created once and released once on every path of
\* a session: build failing at the bound or at the header, the Encoder
\* dropped without finish, finish succeeding or failing; it is never
\* released twice and never released while the Encoder lives.
C3_ContextCreatedOnceReleasedOnce ==
    /\ ctx.freed <= ctx.created /\ ctx.created <= 1
    /\ phase = "Live" => ctx.created = 1 /\ ctx.freed = 0 /\ engine.st = "begun"
    /\ phase \in {"Finished", "Dropped"} =>
          ctx.created = 1 /\ ctx.freed = 1 /\ engine.st = "freed"
    /\ (phase = "BuildFailed" /\ last.fault.kind \in {"bound", "engine", "sink"}) =>
          ctx.created = 1 /\ ctx.freed = 1 /\ engine.st = "freed"

\* C3 witness: an Encoder dropped without finish after a failed write.
C3_Witness ==
    /\ phase = "Dropped" /\ ghost.errored
    /\ ctx.created = 1 /\ ctx.freed = 1

\* C3 witness of the build paths: build failed at the bound computation.
C3_WitnessBound ==
    /\ phase = "BuildFailed" /\ last.fault.kind = "bound"
    /\ ctx.created = 1 /\ ctx.freed = 1

\* C4: finish hands back the sink together with the outcome, also when the
\* engine end operation or the sink's write of the footer fails: the sink
\* then holds everything written to it so far and the outcome is the error.
C4_FinishReturnsSink ==
    phase = "Finished" =>
        /\ Len(returned) = 1
        /\ returned[1].w = ghost.sinkLog
        /\ returned[1].result = last.result
        /\ last.fault.kind \in {"engine", "sink"} =>
              /\ ~returned[1].result.ok
              /\ returned[1].result.err = last.fault.kind
              /\ returned[1].w = last.before

\* C4 witness: finish failed (at the engine, at the sink) and the pair holds
\* the header and blocks written before.
C4_Witness ==
    /\ phase = "Finished" /\ last.fault.kind = "engine"
    /\ Len(returned) = 1 /\ ~returned[1].result.ok
    /\ Len(returned[1].w) > Len(FrameHeader(Prefs))

C4_WitnessSink ==
    /\ phase = "Finished" /\ last.fault.kind = "sink"
    /\ Len(returned) = 1 /\ ~returned[1].result.ok
    /\ Len(returned[1].w) > Len(FrameHeader(Prefs))

CeilDiv(n, d) == (n + d - 1) \div d

\* C5: a write that meets no error returns the input's length; its update
\* calls take the slices [0, L), [L, 2L), ... of the input, in this order,
\* ceil(n / L) of them, whatever number of bytes each call produced; an
\* empty input makes no engine call and no sink write.
C5_WriteConsumesWholeInput ==
    (last.op = "write" /\ last.result.ok) =>
        LET n == Len(last.arg)
        IN  /\ last.result.val = n
            /\ Len(last.calls) = CeilDiv(n, Limit)
            /\ \A i \in 1..Len(last.calls) :
                  /\ last.calls[i].op = "update"
                  /\ last.calls[i].src
                       = SubSeq(last.arg, (i - 1) * Limit + 1, Min(i * Limit, n))
            /\ n = 0 => last.calls = <<>> /\ last.writes = <<>>

\* C5 witness: a successful write split over several update calls, one of
\* which produced no output at all.
C5_Witness ==
    /\ last.op = "write" /\ last.result.ok
    /\ Len(last.calls) >= 2
    /\ \E i \in 1..Len(last.calls) : last.calls[i].out = <<>>

\* C5 witness of the empty input.
C5_WitnessEmpty ==
    /\ last.op = "write" /\ last.result.ok /\ last.arg = <<>>
    /\ last.afterFlush

World0 == [enc |-> NoEncoder, engine |-> NullEngine,
           ctx |-> [created |-> 0, freed |-> 0], calls |-> <<>>,
           writes |-> <<>>, sflush |-> <<>>, order |-> <<>>, result |-> Ok(0)]

Fresh(s) == [s EXCEPT !.calls = <<>>, !.writes = <<>>, !.sflush = <<>>,
                      !.order = <<>>]

\* The sink after build, one single write of S, finish; nothing fails.
OneShotFrame(b, S) ==
    LET s1 == build(World0, b, NoFail)
        s2 == write(Fresh(s1), S, NoFail)
    IN  finish(Fresh(s2), NoFail).pair[1].w

\* C6: however the input S is split into write calls and whatever flush
\* calls come between them, the bytes submitted to the engine concatenate to
\* S, and the finished frame decodes to what the frame of one single write
\* of S decodes to.
C6_ChunkingInvariance ==
    /\ ~ghost.errored => ghost.engineIn = ghost.written
    /\ (phase = "Finished" /\ ~ghost.errored) =>
          /\ Decode(returned[1].w)[1] = "ok"
          /\ Decode(returned[1].w) = Decode(OneShotFrame(builder, ghost.written))

\* C6 witness: S went in over several writes and the frame's bytes differ
\* from those of the single write.
C6_Witness ==
    /\ phase = "Finished" /\ ~ghost.errored
    /\ ghost.nwrites >= 2
    /\ returned[1].w # OneShotFrame(builder, ghost.written)
\* C7: the engine's flush lets go of at least one pending byte whenever it
\* reports a non-zero length, so a flush call makes at most one engine flush
\* call per byte pending at its start and one more; and a flush made right
\* after a successful flush makes one engine call, which reports zero, and
\* writes nothing to the sink.
C7_FlushTerminatesAndIsIdempotent ==
    last.op = "flush" =>
        /\ Len(last.calls) <= last.pending + 1
        /\ \A i \in 1..Len(last.calls) : last.calls[i].op = "flush"
        /\ (last.afterFlush /\ last.result.ok) =>
              /\ last.writes = <<>>
              /\ ghost.sinkLog = last.before
              /\ Len(last.calls) = 1

\* C7 witness: a second flush right after a flush that drained data a write
\* had left pending in the engine.
C7_Witness ==
    /\ last.op = "flush" /\ last.afterFlush /\ last.result.ok
    /\ Len(ghost.written) \in 1..(Limit - 1)
    /\ Len(last.before) > Len(FrameHeader(Prefs))

\* C7 witness of the loop: a flush that took three engine calls.
C7_WitnessLoop ==
    /\ last.op = "flush" /\ last.result.ok
    /\ Len(last.calls) = 3 /\ Len(last.writes) = 2

FailedCalls(calls) == {i \in 1..Len(calls) : calls[i].code < 0}

FailedWrites(writes) == {i \in 1..Len(writes) : ~writes[i].ok}

\* C8: when an engine update fails or the sink rejects a write inside a write
\* call, the call returns that error; the failed step is its last one (no
\* update call and no sink write follows), only a prefix of the input has
\* been submitted, and what earlier iterations wrote stays in the sink.
C8_WriteAbortsOnError ==
    (last.op = "write"
     /\ (FailedCalls(last.calls) # {} \/ FailedWrites(last.writes) # {})) =>
        LET nc == Len(last.calls)
            nw == Len(last.writes)
            sent == Sources(last.calls)
        IN  /\ ~last.result.ok
            /\ last.result.err = "engine" =>
                  /\ FailedCalls(last.calls) = {nc}
                  /\ FailedWrites(last.writes) = {}
                  /\ Len(sent) = (nc - 1) * Limit /\ Len(sent) < Len(last.arg)
            /\ last.result.err = "sink" =>
                  /\ FailedCalls(last.calls) = {}
                  /\ FailedWrites(last.writes) = {nw}
                  /\ last.writes[nw].data = last.calls[nc].out
            /\ nc = last.fault.at
            /\ sent = Prefix(last.arg, Len(sent))
            /\ phase = "Live" /\ enc.w = last.before \o Accepted(last.writes)

\* C8 witness: the engine failed in the second iteration, after the first
\* iteration's block went to the sink.
C8_Witness ==
    /\ last.op = "write" /\ last.result.err = "engine"
    /\ Len(last.calls) = 2 /\ Accepted(last.writes) # <<>>

\* C8 witness: the sink rejected the second iteration's block.
C8_WitnessSink ==
    /\ last.op = "write" /\ last.result.err = "sink"
    /\ Len(last.writes) = 2 /\ Accepted(last.writes) # <<>>

Magics(stream) == {i \in 1..Len(stream) : stream[i][1] = "M"}

\* C9: build yields an Encoder exactly when context creation, the bound,
\* the engine begin and the sink's write of the header all succeeded, and
\* an error and no Encoder otherwise; so the sink of every Encoder (and of
\* every finished session) starts with the header and holds it once.
C9_BuildWritesHeaderOrFails ==
    /\ last.op = "build" =>
          /\ last.result.ok <=> phase = "Live"
          /\ ~last.result.ok <=> phase = "BuildFailed"
          /\ last.result.ok <=>
                /\ Len(last.calls) = 3 /\ FailedCalls(last.calls) = {}
                /\ last.writes = << [data |-> FrameHeader(Prefs), ok |-> TRUE] >>
          /\ ~last.result.ok => enc = NoEncoder /\ returned = <<>>
    /\ phase = "BuildFailed" => last.op = "build"
    /\ phase \in {"Live", "Finished", "Dropped"} =>
          /\ Prefix(ghost.sinkLog, Len(FrameHeader(Prefs))) = FrameHeader(Prefs)
          /\ Magics(ghost.sinkLog) = {1}
    /\ phase = "Live" => enc.w = ghost.sinkLog /\ enc.c # 0

\* C9 witness: build failed when the sink rejected the header.
C9_Witness ==
    /\ phase = "BuildFailed" /\ last.result.err = "sink"
    /\ Len(last.calls) = 3 /\ enc = NoEncoder

\* C9 witness: an Encoder that wrote blocks behind its header.
C9_WitnessLive ==
    /\ phase = "Live" /\ Len(enc.w) > Len(FrameHeader(Prefs)) + 1

\* C10: with an engine and a sink that do not fail, every call of the
\* session succeeds, and after finish the sink holds a complete frame that
\* decodes to exactly the bytes written, the empty input included.
C10_RoundTrip ==
    /\ ~ghost.faulted => ~ghost.errored
    /\ (phase = "Finished" /\ ~ghost.faulted) =>
          /\ returned[1].result.ok
          /\ Decode(returned[1].w) = <<"ok", ghost.written>>

\* C10 witness: a frame of several writes, more bytes than one block holds.
C10_Witness ==
    /\ phase = "Finished" /\ ~ghost.faulted
    /\ ghost.nwrites >= 2 /\ Len(ghost.written) > Limit
    /\ Decode(returned[1].w) = <<"ok", ghost.written>>

\* C10 witness of the empty input.
C10_WitnessEmpty ==
    /\ phase = "Finished" /\ ~ghost.faulted /\ ghost.written = <<>>
    /\ Decode(returned[1].w) = <<"ok", <<>>>>
EndMarks(stream) == {i \in 1..Len(stream) : stream[i] = <<"B", 0>>}

Ends(calls) == {i \in 1..Len(calls) : calls[i].op = "end"}

\* C11: dropping an Encoder without finish releases the native context,
\* makes no engine call (no engine end in particular) and writes nothing to
\* the sink, whose stream then has no footer; the engine end operation is
\* called, and a footer is in the sink, only through finish.
C11_DropWritesNoFooter ==
    /\ phase = "Dropped" =>
          /\ last.op = "drop"
          /\ last.calls = <<>> /\ last.writes = <<>>
          /\ ghost.sinkLog = last.before
          /\ EndMarks(ghost.sinkLog) = {}
          /\ Decode(ghost.sinkLog)[1] = "invalid"
          /\ ctx.freed = 1 /\ engine.st = "freed"
    /\ Ends(last.calls) # {} => last.op = "finish"
    /\ EndMarks(ghost.sinkLog) # {} => phase = "Finished" /\ last.op = "finish"

\* C11 witness: an Encoder dropped after writes and a flush put blocks in
\* the sink.
C11_Witness ==
    /\ phase = "Dropped" /\ ~ghost.errored /\ ghost.nwrites >= 1
    /\ Len(ghost.sinkLog) > Len(FrameHeader(Prefs))
    /\ ctx.freed = 1
\* The data bytes a stream of sink tokens carries, in order.
DataBytes(stream) ==
    LET idx == {i \in 1..Len(stream) : stream[i][1] = "D"}
        RECURSIVE Pick(_)
        Pick(i) == IF i > Len(stream) THEN <<>>
                   ELSE (IF i \in idx THEN <<stream[i][2]>> ELSE <<>>) \o Pick(i + 1)
    IN  Pick(1)

\* C12: with auto-flush enabled, a successful write leaves every byte it
\* accepted in the sink and nothing buffered in the engine, so the engine
\* holds nothing when any later call starts and a flush after it writes no
\* byte to the sink.
C12_AutoFlushLeavesNothingBuffered ==
    (builder.auto_flush /\ phase \in {"Live", "Finished", "Dropped"}) =>
        /\ (last.op = "write" /\ last.result.ok) =>
              /\ engine.pending = <<>>
              /\ DataBytes(Accepted(last.writes)) = last.arg
              /\ ~ghost.errored => DataBytes(ghost.sinkLog) = ghost.written
        /\ last.op \in {"write", "flush", "finish", "drop"} => last.pending = 0
        /\ last.op = "flush" =>
              /\ last.writes = <<>>
              /\ ghost.sinkLog = last.before
              /\ Len(last.calls) = 1

\* C12 witness: auto-flush on, one write of a partial block accepted and
\* then a flush right after it.
C12_Witness ==
    /\ builder.auto_flush /\ phase = "Live" /\ ~ghost.errored
    /\ ncalls = 2 /\ ghost.nwrites = 1 /\ Len(ghost.written) = 1
    /\ last.op = "flush" /\ last.result.ok
    /\ DataBytes(ghost.sinkLog) = ghost.written
\* The value a builder field must hold: the one last set, else the default.
LastSet(set, default) == IF set = <<>> THEN default ELSE set[1]

\* C13: a new builder has block size Default, block mode Linked, checksum
\* enabled, level 0 and auto-flush off; after any sequence of setter calls
\* every field holds the value its setter was last called with, or its
\* default when it never was (so a setter changes no field but its own);
\* and the preferences the engine was begun with by build are exactly these
\* five values.
C13_BuilderFieldsAndPreferences ==
    /\ phase = "Configuring" =>
          /\ builder.block_size = LastSet(last.set.block_size, "Default")
          /\ builder.block_mode = LastSet(last.set.block_mode, "Linked")
          /\ builder.checksum = LastSet(last.set.checksum, "ChecksumEnabled")
          /\ builder.level = LastSet(last.set.level, 0)
          /\ builder.auto_flush = LastSet(last.set.auto_flush, FALSE)
    /\ phase = "Live" =>
          /\ Len(engine.prefs) = 1
          /\ LET p == engine.prefs[1]
             IN  /\ p.frame_info.block_size_id = builder.block_size
                 /\ p.frame_info.block_mode = builder.block_mode
                 /\ p.frame_info.content_checksum_flag = builder.checksum
                 /\ p.compression_level = builder.level
                 /\ p.auto_flush = (IF builder.auto_flush THEN 1 ELSE 0)

\* C13 witness: every setter was called with a value other than the
\* default and the build that followed succeeded.
C13_Witness ==
    /\ phase = "Live" /\ last.op = "build"
    /\ engine.prefs = << [frame_info |-> [block_size_id |-> "Max256KB",
                                          block_mode |-> "Independent",
                                          content_checksum_flag |-> "NoChecksum"],
                          compression_level |-> 1, auto_flush |-> 1] >>

\* C13 witness: in the configuring phase, some fields set (one of them back
\* to its default) and the others never touched.
C13_WitnessSetters ==
    /\ phase = "Configuring"
    /\ last.set.level = <<1>> /\ last.set.checksum = <<"ChecksumEnabled">>
    /\ last.set.block_size = <<>> /\ last.set.auto_flush = <<>>
    /\ builder.level = 1 /\ builder.block_size = "Default"
SinkFlushes(order) == {i \in 1..Len(order) : order[i] = "f"}

\* C14: a flush whose drain loop met no failure calls the sink's flush
\* exactly once, as its last step and right after the engine flush that
\* reported zero (every earlier engine flush reported bytes), and returns
\* what the sink's flush returned; a flush in which an engine flush or a
\* sink write failed returns that error and never calls the sink's flush.
C14_FlushCallsSinkFlushOnce ==
    last.op = "flush" =>
        LET n == Len(last.calls)
            m == Len(last.order)
            engineFailed == \E i \in 1..n : last.calls[i].code < 0
            writeFailed == \E i \in 1..Len(last.writes) : ~last.writes[i].ok
        IN  /\ n >= 1
            /\ \A i \in 1..n : last.calls[i].op = "flush"
            /\ IF engineFailed \/ writeFailed
               THEN /\ last.sflush = <<>>
                    /\ SinkFlushes(last.order) = {}
                    /\ last.result = Err(IF engineFailed THEN "engine" ELSE "sink")
               ELSE /\ Len(last.sflush) = 1
                    /\ SinkFlushes(last.order) = {m}
                    /\ m >= 2 /\ last.order[m - 1] = "e"
                    /\ last.calls[n].code = 0
                    /\ \A i \in 1..(n - 1) : last.calls[i].code > 0
                    /\ last.result = (IF last.sflush[1] THEN Ok(0) ELSE Err("sink"))

\* C14 witness: a flush that drained pending data in two passes and whose
\* sink flush then failed.
C14_Witness ==
    /\ last.op = "flush" /\ Len(last.calls) = 3 /\ Len(last.writes) = 2
    /\ last.sflush = <<FALSE>> /\ last.result = Err("sink")

\* C14 witness: the sink write of the second pass failed, the sink flush
\* was not called.
C14_WitnessLoopError ==
    /\ last.op = "flush" /\ Len(last.calls) = 2 /\ Len(last.writes) = 2
    /\ ~last.writes[2].ok /\ last.sflush = <<>> /\ last.result = Err("sink")

\* C14 witness: a flush with no failure at all.
C14_WitnessOk ==
    /\ last.op = "flush" /\ Len(last.calls) = 2 /\ last.sflush = <<TRUE>>
    /\ last.result = Ok(0)
\* The engine operations that produce into the scratch buffer.
BufferOps == {"begin", "update", "flush", "end"}

\* The capacity build allocates for the builder's settings.
Bound == LZ4F_compressBound(get_size(builder.block_size), Preferences(builder), FALSE)

\* C15: the scratch buffer's capacity is the one build gave it in every
\* state of a live Encoder; every engine begin, update, flush and end is
\* given that capacity as its output limit; and what an engine operation
\* reports, and the valid length set from it, never exceed the capacity.
C15_BufferCapacityFixed ==
    /\ phase = "Live" =>
          /\ enc.buffer.cap = Bound
          /\ enc.buffer.len <= enc.buffer.cap
          /\ Len(enc.buffer.mem) <= enc.buffer.cap
    /\ \A i \in 1..Len(last.calls) :
          last.calls[i].op \in BufferOps =>
              /\ last.calls[i].cap = Bound
              /\ last.calls[i].code <= last.calls[i].cap
              /\ Len(last.calls[i].out) <= last.calls[i].cap

\* C15 witness: a write whose engine update produced bytes into the buffer
\* and a valid length left over from it.
C15_Witness ==
    /\ phase = "Live" /\ last.op = "write" /\ last.result.ok
    /\ \E i \in 1..Len(last.calls) :
          last.calls[i].op = "update" /\ last.calls[i].code > 0
    /\ enc.buffer.len > 0 /\ enc.buffer.cap = Bound
\* What holds in every state of the lifecycle: the engine end operation is
\* called by finish only and once in that call, finish is what ends the
\* session and hands the sink back.
LifecycleInv ==
    /\ Cardinality(Ends(last.calls)) <= 1
    /\ Ends(last.calls) # {} => last.op = "finish"
    /\ last.op = "finish" <=> phase = "Finished"
    /\ returned # <<>> <=> phase = "Finished"
    /\ phase = "Live" => last.op \in {"build", "write", "flush"}
    /\ phase = "Configuring" => last.op = "none" /\ ghost.sinkLog = <<>>

\* The steps of the lifecycle: configuring leads to a built Encoder (header
\* written) or a failed build, a built Encoder stays live under write and
\* flush until finish or drop, and nothing follows finish, drop or a failed
\* build: no engine call, no sink write, no second finish.
LifecycleStep ==
    /\ phase = "Configuring" =>
          \/ phase' = "Configuring" /\ ghost' = ghost
          \/ phase' = "Live" /\ last'.op = "build" /\ last'.result.ok
             /\ ghost'.sinkLog = FrameHeader(Preferences(builder))
          \/ phase' = "BuildFailed" /\ last'.op = "build" /\ ~last'.result.ok
    /\ phase = "Live" =>
          \/ phase' = "Live" /\ last'.op \in {"write", "flush"}
             /\ Ends(last'.calls) = {} /\ returned' = <<>>
          \/ phase' = "Finished" /\ last'.op = "finish"
             /\ Cardinality(Ends(last'.calls)) = 1 /\ Len(returned') = 1
          \/ phase' = "Dropped" /\ last'.op = "drop" /\ returned' = <<>>
    /\ phase \notin {"Finished", "Dropped", "BuildFailed"}

\* C16: the Encoder goes Configuring, HeaderWritten, then writes and flushes
\* in any number and order, then Finished; the engine end operation is
\* called at most once in a session and only by finish; after finish there
\* is no engine update, flush or end and no sink write; and the sink is
\* handed back by finish only.
C16_Lifecycle == []LifecycleInv /\ [][LifecycleStep]_vars

\* C16 witness: a session of a write, a flush and a write, then finish.
C16_Witness ==
    /\ phase = "Finished" /\ ncalls = 3 /\ ghost.nwrites = 2
    /\ last.afterFlush = FALSE /\ ~ghost.errored
    /\ Cardinality(Ends(last.calls)) = 1 /\ Len(returned) = 1
    /\ Cardinality(EndMarks(ghost.sinkLog)) = 1
\* C16 witness: the other order, a flush, a write and a flush, the last
\* call coming after a write that failed.
C16_WitnessOrder ==
    /\ phase = "Live" /\ ncalls = 3 /\ last.op = "flush" /\ last.result.ok
    /\ ghost.nwrites = 0 /\ ghost.offered > 0 /\ ghost.errored
    /\ ~last.afterFlush
CallOps(calls) == [i \in 1..Len(calls) |-> calls[i].op]

BoundFailed(calls) == \E i \in 1..Len(calls) : calls[i].op = "bound" /\ calls[i].code < 0

\* C17 as stated: build computes the bound and allocates the buffer, then
\* creates the engine context, then writes the header, so that no context
\* has been created when the bound computation fails.
C17_BoundBeforeContext ==
    last.op = "build" =>
        /\ \A i, j \in 1..Len(last.calls) :
              (last.calls[i].op = "bound" /\ last.calls[j].op = "create") => i < j
        /\ BoundFailed(last.calls) =>
              /\ ctx.created = 0
              /\ "create" \notin {last.calls[i].op : i \in 1..Len(last.calls)}

\* C17 amended: build creates the engine context first, then computes the
\* bound and allocates the buffer of that capacity, then writes the header;
\* each step is made only when the one before it succeeded.  When the bound
\* computation fails the context has been created, and it is released
\* before build returns; no header is made and nothing reaches the sink.
C17_ContextBeforeBound ==
    last.op = "build" =>
        LET ops == CallOps(last.calls)
        IN  /\ ops \in {<<"create">>, <<"create", "bound">>,
                        <<"create", "bound", "begin">>}
            /\ ops = <<"create">> <=> last.calls[1].code < 0
            /\ Len(ops) >= 2 => (ops = <<"create", "bound">> <=> BoundFailed(last.calls))
            /\ last.calls[1].code < 0 => ctx.created = 0 /\ ctx.freed = 0
            /\ BoundFailed(last.calls) =>
                  /\ ctx.created = 1 /\ ctx.freed = 1
                  /\ last.writes = <<>> /\ ~last.result.ok
                  /\ phase = "BuildFailed"
            /\ Len(ops) = 3 =>
                  /\ last.calls[3].cap = last.calls[2].code
                  /\ last.result.ok => last.order = <<"e", "w">>

\* C17 witness: a build whose bound computation failed after the context
\* was created.
C17_Witness ==
    /\ phase = "BuildFailed" /\ last.op = "build"
    /\ CallOps(last.calls) = <<"create", "bound">>
    /\ BoundFailed(last.calls) /\ last.calls[1].code >= 0
    /\ ctx.created = 1

\* C17 witness: a build that went through all steps.
C17_WitnessBuilt ==
    /\ phase = "Live" /\ last.op = "build"
    /\ CallOps(last.calls) = <<"create", "bound", "begin">>
IsBufferCall(call) == call.op \in BufferOps

IsNotSinkFlush(event) == event # "f"

\* The engine calls and sink writes a call log stands for when every
\* output is written once, right after the call that produced it.
RECURSIVE ComputeThenFlush(_)
ComputeThenFlush(calls) ==
    IF calls = <<>> THEN <<>>
    ELSE <<"e">> \o (IF Head(calls).code > 0 THEN <<"w">> ELSE <<>>)
         \o ComputeThenFlush(Tail(calls))

\* The outputs of the calls that reported bytes, one entry per call.
RECURSIVE Produced(_)
Produced(calls) ==
    IF calls = <<>> THEN <<>>
    ELSE (IF Head(calls).code > 0 THEN <<Head(calls).out>> ELSE <<>>)
         \o Produced(Tail(calls))

\* C18: within every call, each output an engine operation put into the
\* scratch buffer is handed to the sink exactly once, right after that
\* operation and before the next one, and nothing else is: an operation
\* that failed or reported zero bytes (an update still accumulating, a
\* flush with nothing left) is followed by no sink write, so what an
\* earlier operation left in the buffer is never written again.
C18_ComputeThenFlush ==
    LET calls == SelectSeq(last.calls, IsBufferCall)
    IN  /\ SelectSeq(last.order, IsNotSinkFlush) = ComputeThenFlush(calls)
        /\ [j \in 1..Len(last.writes) |-> last.writes[j].data] = Produced(calls)
        /\ \A i \in 1..Len(calls) : calls[i].code = Len(calls[i].out) \/ calls[i].code < 0

\* C18 witness: a write whose update reported zero bytes while the buffer
\* still held the output of the operation before; the sink got nothing.
C18_Witness ==
    /\ phase = "Live" /\ last.op = "write" /\ last.result.ok /\ last.arg # <<>>
    /\ Len(last.calls) = 1 /\ last.calls[1].code = 0
    /\ last.writes = <<>> /\ enc.buffer.mem # <<>> /\ enc.buffer.len = 0

\* C18 witness: a flush of two passes, then the pass that reported zero.
C18_WitnessFlush ==
    /\ last.op = "flush" /\ last.result.ok
    /\ last.order = <<"e", "w", "e", "w", "e", "f">>

\* C18 witness: an engine update made to fail after one that produced
\* output; nothing was written for it.
C18_WitnessFailure ==
    /\ last.op = "write" /\ Len(last.calls) = 2 /\ last.calls[1].code > 0
    /\ last.calls[2].code < 0 /\ last.order = <<"e", "w", "e">>
\* The Encoders that hold a native handle, released or not.
Owners == {i \in 1..Len(enc) : enc[i].e.c # 0}

\* The bytes Encoder i passed to its engine that are in its sink or still
\* held by its context.
BytesOf(i) ==
    {enc[i].e.w[j][2] : j \in {k \in 1..Len(enc[i].e.w) : enc[i].e.w[k][1] = "D"}}
    \cup {engine[enc[i].e.c].pending[j] : j \in 1..Len(engine[enc[i].e.c].pending)}

SharedInv ==
    /\ \A i, j \in Owners : i # j => enc[i].e.c # enc[j].e.c
    /\ \A i \in Owners : enc[i].e.c \in Handles
    /\ ctx.created = Cardinality(Owners)
    /\ \A h \in Handles :
          /\ Len(ghost[h]) <= 1
          /\ \A k \in 1..Len(ghost[h]) :
                ghost[h][k] \in Owners /\ enc[ghost[h][k]].e.c = h
    /\ \A i \in Owners :
          LET h == enc[i].e.c
          IN  /\ enc[i].state = "Live" =>
                    /\ ghost[h] = <<>>
                    /\ engine[h].st = "begun"
                    /\ BytesOf(i) \subseteq {i}
              /\ enc[i].state # "Live" =>
                    /\ ghost[h] = <<i>>
                    /\ engine[h].st = "freed"
    /\ \A i \in 1..Len(enc) : i \notin Owners => enc[i].state = "BuildFailed"

\* C19: build leaves the builder as it was, and every build makes a
\* context of its own: of the Encoders built from the one builder no two
\* hold the same native handle, a live Encoder's context is begun, not
\* released, and holds only that Encoder's data, and every handle is
\* released exactly once, by the Encoder that holds it, when that Encoder
\* is finished or dropped or its build fails.
C19_OwnContextPerBuild ==
    []SharedInv /\ [][ncalls' # ncalls => builder' = builder]_vars

\* C19 witness: two Encoders of the same builder alive at once, both
\* having written, the builder changed between the two builds.
C19_Witness ==
    /\ Len(enc) = 2 /\ enc[1].state = "Live" /\ enc[2].state = "Live"
    /\ enc[1].e.c # enc[2].e.c
    /\ engine[enc[1].e.c].pending = <<1>> /\ engine[enc[2].e.c].pending = <<2>>
    /\ engine[enc[1].e.c].prefs # engine[enc[2].e.c].prefs

\* C19 witness: one Encoder finished and the other dropped, each handle
\* released by its owner.
C19_WitnessReleased ==
    /\ Len(enc) = 2 /\ enc[1].state = "Finished" /\ enc[2].state = "Dropped"
    /\ ghost[enc[1].e.c] = <<1>> /\ ghost[enc[2].e.c] = <<2>>
    /\ ctx = [created |-> 2, freed |-> 2]
====
